---- MODULE Spec2Model ----
(***************************************************************************)
(* A model of the BFV engine of complete_fhe_package: the polynomial ring  *)
(* (custom_fhe/polynomial.py), the scheme (custom_fhe/bfv_scheme.py), the  *)
(* accelerated subclass (bfv_accelerated.py, example_accelerated.py) and   *)
(* the helper that subtracts ciphertexts (FastFHE_Custom).                 *)
(*                                                                         *)
(* A polynomial is a sequence of N integers (index 1 is coefficient 0).    *)
(* numpy int64 arrays are modelled with a word of IntBits bits; Python     *)
(* `object` arrays are unbounded integers.                                 *)
(***************************************************************************)
EXTENDS Integers, Sequences, FiniteSets, TLC

VARIABLES
    fhe,          \* the engine's parameters (self.N, self.t, self.q, ...), or NoEngine
    secret_key,   \* self.secret_key: a ternary polynomial, or None
    public_key,   \* self.public_key: <<b, a>>, or None
    relin_key,    \* self.relin_key: <<<<b0, a0>>, <<b1, a1>>>>, or None
    ct1, ct2,     \* the client's two operand ciphertexts, or None
    ct3,          \* the client's result ciphertext, or None
    op3,          \* the operation that produced ct3, or "none"
    pt,           \* the last plaintext decrypt returned, or None
    ptof,         \* the slot (1, 2, 3) decrypt was last applied to, or 0
    call,         \* the last call made
    err,          \* the exception the last call raised, or "none"
    msg1, msg2,   \* the plaintexts the client encrypted into ct1 and ct2
    noise_in,     \* the noise of the value handed to the decryption scaling
    val,          \* the values the last decode returned, or None
    CPP_AVAILABLE \* the module global: whether import fhe_fast_mult succeeded

vars == <<fhe, secret_key, public_key, relin_key, ct1, ct2, ct3, op3, pt, ptof,
          call, err, msg1, msg2, noise_in, val, CPP_AVAILABLE>>

\* Python's None for a polynomial, a key or a plaintext.
None == <<>>

-----------------------------------------------------------------------------
(* Bounds of the model.                                                    *)

\* Width of the model's machine word, standing for numpy's int64.
IntBits == 16
\* Largest plaintext modulus t a constructor call is given.
MaxT == 3
\* Largest q_bits a constructor call is given.
MaxQBits == 3
\* Largest ring degree N a constructor call is given.
MaxN == 4

\* The largest modulus whose residues are all drawn by the key generation
\* runs of SpecKeys; above it the draws are 0 and q - 1.
MaxFullDraw == 7

-----------------------------------------------------------------------------
(* Integer helpers.                                                        *)

Abs(x) == IF x < 0 THEN -x ELSE x

\* numpy int64 arithmetic wraps around: the value of x stored in a word.
Wrap(x) == ((x + 2^(IntBits - 1)) % 2^IntBits) - 2^(IntBits - 1)

\* int.bit_length()
RECURSIVE bit_length(_)
bit_length(n) == IF n = 0 THEN 0 ELSE 1 + bit_length(n \div 2)

\* int(n ** 0.5)
isqrt(n) == CHOOSE r \in 0..n : r * r <= n /\ (r + 1) * (r + 1) > n

\* N & (N - 1) for N >= 0: clearing the lowest set bit.
RECURSIVE BitAnd(_, _)
BitAnd(a, b) ==
    IF a = 0 \/ b = 0 THEN 0
    ELSE IF a = -1 THEN b
    ELSE IF b = -1 THEN a
    ELSE 2 * BitAnd(a \div 2, b \div 2) + (IF a % 2 = 1 /\ b % 2 = 1 THEN 1 ELSE 0)

-----------------------------------------------------------------------------
(* custom_fhe/polynomial.py: PolynomialRing over int64 arrays.             *)

\* Sum of f[i] for i in lo..hi.
RECURSIVE SumRange(_, _, _)
SumRange(f, lo, hi) == IF lo > hi THEN 0 ELSE f[lo] + SumRange(f, lo + 1, hi)

Max(x, y) == IF x > y THEN x ELSE y
Min(x, y) == IF x < y THEN x ELSE y

\* np.convolve(a, b) on object arrays: the 2N-1 coefficients of the product.
convolve(a, b) ==
    [k \in 1..(Len(a) + Len(b) - 1) |->
        LET lo == Max(1, k + 1 - Len(b))
            hi == Min(Len(a), k)
            terms == [i \in lo..hi |-> a[i] * b[k + 1 - i]]
        IN  SumRange(terms, lo, hi)]

\* The negacyclic reduction loop (X^N = -1): result[i] += conv[i] for i < N,
\* result[i - N] -= conv[i] otherwise.  No reduction mod q.
negacyclic(conv, N) ==
    [i \in 1..N |-> conv[i] - (IF i + N <= Len(conv) THEN conv[i + N] ELSE 0)]

\* An add that subtracts (a seeded fault).
add_as_sub(a, b, q) == [i \in 1..Len(a) |-> Wrap(a[i] - b[i]) % q]

\* PolynomialRing.add: (a + b) % q on int64 arrays.
add(a, b, q) == [i \in 1..Len(a) |-> Wrap(a[i] + b[i]) % q]

\* A sub that adds (a seeded fault).
sub_as_add(a, b, q) == [i \in 1..Len(a) |-> Wrap(a[i] + b[i]) % q]

\* PolynomialRing.sub: (a - b) % q on int64 arrays.
sub(a, b, q) == [i \in 1..Len(a) |-> Wrap(a[i] - b[i]) % q]

\* PolynomialRing.neg: (-a) % q.
neg(a, q) == [i \in 1..Len(a) |-> Wrap(-a[i]) % q]

\* PolynomialRing.mul_scalar: object product, then % q.
mul_scalar(a, scalar, q) == [i \in 1..Len(a) |-> (a[i] * scalar) % q]

\* PolynomialRing.mul: object convolution, negacyclic fold, then % q.
mul(a, b, N, q) ==
    LET res == negacyclic(convolve(a, b), N)
    IN  [i \in 1..N |-> res[i] % q]

\* PolynomialRing.mod_center: entries above q // 2 have q subtracted.
mod_center(a, q) ==
    [i \in 1..Len(a) |-> IF a[i] > q \div 2 THEN Wrap(a[i] - q) ELSE a[i]]

\* All sequences of length n over the set S.
Polys(S, n) == [1..n -> S]

\* The zero polynomial of length N.
Zero(N) == [k \in 1..N |-> 0]

\* PolynomialRing.random_uniform: every coefficient in [0, q).
random_uniform(N, q) == Polys(0..(q - 1), N)

\* PolynomialRing.random_ternary: every coefficient in {-1, 0, 1}.
random_ternary(N) == Polys({-1, 0, 1}, N)

\* DiscreteGaussian.sample_bounded: rounded normal samples clipped to
\* [-bound, bound]; every integer of the interval can come out.
sample_bounded(N, bound) == Polys((-bound)..bound, N)

-----------------------------------------------------------------------------
(* BFVScheme.__init__ and BFVSchemeAccelerated.__init__.                   *)

\* The state of the program before an engine is constructed, and after a
\* constructor raised.
NoEngine ==
    [ok |-> FALSE, kind |-> "none", N |-> 0, t |-> 0, q_bits |-> 0, sigma |-> 0,
     q |-> 0, ring_N |-> 0, ring_q |-> 0, delta |-> 0, T |-> 0, n_slots |-> 0,
     use_cpp |-> FALSE]

\* PolynomialRing.__init__ raises unless N & (N - 1) == 0.
RingCheckFails(N) == BitAnd(N, N - 1) # 0

\* The exception BFVScheme.__init__(N, t, q_bits, sigma) raises, or "none".
BaseInitError(N, t, q_bits) ==
    IF RingCheckFails(N) THEN "ValueError"
    ELSE IF t = 0 THEN "ZeroDivisionError"
    ELSE "none"

\* The fields BFVScheme.__init__ sets.  sigma is kept by its integer part,
\* the only thing the samplers' bound 6 * int(sigma) reads.
BaseInit(N, t, q_bits, sigma) ==
    LET q == 2^q_bits - 1
    IN  [ok |-> TRUE, kind |-> "base", N |-> N, t |-> t, q_bits |-> q_bits,
         sigma |-> sigma, q |-> q, ring_N |-> N, ring_q |-> q,
         delta |-> q \div t, T |-> 2^(q_bits \div 2), n_slots |-> N \div 2,
         use_cpp |-> FALSE]

\* is_prime of _find_ntt_prime: odd, and no odd i in 3..int(sqrt(n)) divides n.
is_prime(n) ==
    /\ n % 2 # 0
    /\ \A i \in 3..isqrt(n) : (i % 2 = 1) => (n % i # 0)

\* The while loop of _find_ntt_prime: advance by m until is_prime.
RECURSIVE NextPrimeFrom(_, _)
NextPrimeFrom(q, m) == IF is_prime(q) THEN q ELSE NextPrimeFrom(q + m, m)

\* _find_ntt_prime(start_q, N), for N > 0.
find_ntt_prime(start_q, N) ==
    LET m == 2 * N
    IN  NextPrimeFrom((start_q \div m) * m + 1, m)

\* An accelerated constructor that replaces q and leaves the base T in
\* place (a seeded fault).
AcceleratedInit_stale_T(N, t, q_bits, sigma, cpp_available, cpp_raises) ==
    LET base == [BaseInit(N, t, q_bits, sigma) EXCEPT !.kind = "accelerated"]
    IN  IF ~cpp_available \/ N = 0 THEN base
        ELSE LET q == find_ntt_prime(2^q_bits, N)
             IN  [base EXCEPT !.q = q, !.ring_q = q, !.delta = q \div t,
                              !.use_cpp = ~cpp_raises]

\* BFVSchemeAccelerated.__init__: the base fields, then with the backend
\* present the NTT-friendly modulus and the parameters derived from it.
\* cpp_available is the module's CPP_AVAILABLE; cpp_raises is whether
\* fhe_fast_mult.BFVMultiplier(N, q, t) raises.
AcceleratedInit(N, t, q_bits, sigma, cpp_available, cpp_raises) ==
    LET base == [BaseInit(N, t, q_bits, sigma) EXCEPT !.kind = "accelerated"]
    IN  IF ~cpp_available THEN base
        ELSE IF N = 0 THEN base    \* start_q // 0 raises inside the try block
        ELSE LET q == find_ntt_prime(2^q_bits, N)
             IN  [base EXCEPT !.q = q, !.ring_q = q, !.delta = q \div t,
                              !.T = 2^(bit_length(q) \div 2),
                              !.use_cpp = ~cpp_raises]

-----------------------------------------------------------------------------
(* custom_fhe/bfv_scheme.py: the scheme's operations as functions of the   *)
(* engine e, the installed keys and the values the samplers return.        *)

\* Ciphertext(components, params): the component polynomials and the
\* parameters the ciphertext carries.
Ciphertext(components, params) == [c |-> components, params |-> params]
NoCt == [c |-> <<>>, params |-> <<>>]
size(ct) == Len(ct.c)

\* The params dictionary encrypt and decrypt attach: N, t, q.
ParamsOf(e) == <<e.N, e.t, e.q>>

\* The size-2 ciphertexts that carry the parameters p = <<N, t, q>>.
CiphertextsOf(p) ==
    {Ciphertext(<<c0, c1>>, p) : c0 \in Polys(0..(p[3] - 1), p[1]),
                                 c1 \in Polys(0..(p[3] - 1), p[1])}

\* The bound every caller passes to sample_bounded: 6 * int(self.sigma).
SamplerBound(e) == 6 * e.sigma

\* key_generation: b = -(a*s + e); returns <<secret key, public key>>.
key_generation(e, s, a, er) ==
    LET a_s   == mul(a, s, e.ring_N, e.ring_q)
        a_s_e == add(a_s, er, e.ring_q)
        b     == neg(a_s_e, e.ring_q)
    IN  <<s, <<b, a>>>>

\* _encrypt_poly_internal: (-(a*s + e) + poly_msg, a).
encrypt_poly_internal(e, s, poly_msg, a, er) ==
    LET a_s   == mul(a, s, e.ring_N, e.ring_q)
        noise == add(a_s, er, e.ring_q)
        b     == add(neg(noise, e.ring_q), poly_msg, e.ring_q)
    IN  <<b, a>>

\* generate_relin_key: k0 encrypts s^2, k1 encrypts T * s^2.
generate_relin_key(e, s, a0, e0, a1, e1) ==
    LET s_squared   == mul(s, s, e.ring_N, e.ring_q)
        k0          == encrypt_poly_internal(e, s, s_squared, a0, e0)
        s_squared_T == mul_scalar(s_squared, e.T, e.ring_q)
        k1          == encrypt_poly_internal(e, s, s_squared_T, a1, e1)
    IN  <<k0, k1>>

\* An encrypt that adds the message without scaling it by delta (a seeded
\* fault).
encrypt_unscaled(e, pk, m, u, e1, e2) ==
    LET pk0_u == mul(pk[1], u, e.ring_N, e.ring_q)
        c0a   == add(pk0_u, e1, e.ring_q)
        c0    == add(c0a, m, e.ring_q)
        pk1_u == mul(pk[2], u, e.ring_N, e.ring_q)
        c1    == add(pk1_u, e2, e.ring_q)
    IN  Ciphertext(<<c0, c1>>, ParamsOf(e))

\* encrypt: c0 = pk0*u + e1 + delta*m, c1 = pk1*u + e2.
encrypt(e, pk, m, u, e1, e2) ==
    LET pk0_u == mul(pk[1], u, e.ring_N, e.ring_q)
        c0a   == add(pk0_u, e1, e.ring_q)
        c0    == add(c0a, mul_scalar(m, e.delta, e.ring_q), e.ring_q)
        pk1_u == mul(pk[2], u, e.ring_N, e.ring_q)
        c1    == add(pk1_u, e2, e.ring_q)
    IN  Ciphertext(<<c0, c1>>, ParamsOf(e))

\* A scaling that truncates instead of rounding (a seeded fault).
scale_truncating(v, t, q) == ((v * t) \div q) % t

\* The rounded scaling of decrypt: (v * t + q // 2) // q, then % t.
scale(v, t, q) == ((v * t + (q \div 2)) \div q) % t

\* decrypt: noisy_m = c0 + c1*s from the first two components, then scaled.
decrypt(e, s, ct) ==
    LET c0      == ct.c[1]
        c1      == ct.c[2]
        c1_s    == mul(c1, s, e.ring_N, e.ring_q)
        noisy_m == add(c0, c1_s, e.ring_q)
    IN  [i \in 1..Len(noisy_m) |-> scale(noisy_m[i], e.t, e.q)]

\* A mul_scale that leaves out the final reduction mod q (a seeded fault).
mul_scale_unreduced(e, p1, p2) ==
    LET res == negacyclic(convolve(p1, p2), e.N)
    IN  [i \in 1..e.N |-> (res[i] * e.t + (e.q \div 2)) \div e.q]

\* mul_scale of multiply: integer negacyclic product, rescaled by t/q with
\* rounding, then % q.
mul_scale(e, p1, p2) ==
    LET res == negacyclic(convolve(p1, p2), e.N)
    IN  [i \in 1..e.N |-> ((res[i] * e.t + (e.q \div 2)) \div e.q) % e.q]

\* A multiply whose middle component keeps one cross term only (a seeded
\* fault).
multiply_one_cross_term(e, x, y) ==
    Ciphertext(<<mul_scale(e, x.c[1], y.c[1]), mul_scale(e, x.c[1], y.c[2]),
                 mul_scale(e, x.c[2], y.c[2])>>, x.params)

\* A multiply that folds the third component away (a seeded fault).
multiply_two_components(e, x, y) ==
    Ciphertext(<<mul_scale(e, x.c[1], y.c[1]),
                 add(mul_scale(e, x.c[1], y.c[2]), mul_scale(e, x.c[2], y.c[1]),
                     e.ring_q)>>, x.params)

\* multiply (BFVScheme.multiply; BFVSchemeAccelerated.multiply delegates to
\* it when use_cpp is false).
multiply(e, x, y) ==
    LET d0 == mul_scale(e, x.c[1], y.c[1])
        d1 == add(mul_scale(e, x.c[1], y.c[2]), mul_scale(e, x.c[2], y.c[1]),
                  e.ring_q)
        d2 == mul_scale(e, x.c[2], y.c[2])
    IN  Ciphertext(<<d0, d1, d2>>, x.params)

\* A relinearize that drops the third component (a seeded fault).
relinearize_dropping_d2(e, keys, ct) == Ciphertext(<<ct.c[1], ct.c[2]>>, ct.params)

\* A relinearize that pairs the low digit with k1 and the high digit with
\* k0 (a seeded fault).
relinearize_swapped_keys(e, keys, ct) ==
    IF size(ct) # 3 THEN ct ELSE
    LET d2_0 == [i \in 1..Len(ct.c[3]) |-> ct.c[3][i] % e.T]
        d2_1 == [i \in 1..Len(ct.c[3]) |-> ct.c[3][i] \div e.T]
        new_c0 == add(ct.c[1], add(mul(d2_0, keys[2][1], e.ring_N, e.ring_q),
                                   mul(d2_1, keys[1][1], e.ring_N, e.ring_q),
                                   e.ring_q), e.ring_q)
        new_c1 == add(ct.c[2], add(mul(d2_0, keys[2][2], e.ring_N, e.ring_q),
                                   mul(d2_1, keys[1][2], e.ring_N, e.ring_q),
                                   e.ring_q), e.ring_q)
    IN  Ciphertext(<<new_c0, new_c1>>, ct.params)

\* relinearize with keys = <<k0, k1>>: a ciphertext whose size is not 3 is
\* returned as it is.
relinearize(e, keys, ct) ==
    IF size(ct) # 3 THEN ct ELSE
    LET d0 == ct.c[1]
        d1 == ct.c[2]
        d2 == ct.c[3]
        d2_0 == [i \in 1..Len(d2) |-> d2[i] % e.T]
        d2_1 == [i \in 1..Len(d2) |-> d2[i] \div e.T]
        k0_b == keys[1][1]
        k0_a == keys[1][2]
        k1_b == keys[2][1]
        k1_a == keys[2][2]
        term0_0 == mul(d2_0, k0_b, e.ring_N, e.ring_q)
        term0_1 == mul(d2_1, k1_b, e.ring_N, e.ring_q)
        new_c0  == add(d0, add(term0_0, term0_1, e.ring_q), e.ring_q)
        term1_0 == mul(d2_0, k0_a, e.ring_N, e.ring_q)
        term1_1 == mul(d2_1, k1_a, e.ring_N, e.ring_q)
        new_c1  == add(d1, add(term1_0, term1_1, e.ring_q), e.ring_q)
    IN  Ciphertext(<<new_c0, new_c1>>, ct.params)

\* encode: the first N values reduced mod t, zero padded.
encode(e, values) ==
    [i \in 1..e.N |-> IF i <= Len(values) THEN values[i] % e.t ELSE 0]

\* decode: int(mod_center(poly)[0] % t).
decode(e, p) == mod_center(p, e.ring_q)[1] % e.t

\* A homomorphic_sub that leaves the second component of its first operand
\* as it is (a seeded fault).
homomorphic_sub_first_only(e, x, y) ==
    Ciphertext(<<sub(x.c[1], y.c[1], e.ring_q), x.c[2]>>, x.params)

\* FastFHE_Custom.homomorphic_sub: componentwise poly_ring.sub.
homomorphic_sub(e, x, y) ==
    LET d0 == sub(x.c[1], y.c[1], e.ring_q)
        d1 == sub(x.c[2], y.c[2], e.ring_q)
    IN  Ciphertext(<<d0, d1>>, x.params)

\* FastFHE_Custom.decrypt_batch applied to the plaintext decrypt returned:
\* entries above t // 2 have t subtracted; the first num_values are kept.
decrypt_batch(e, p, num_values) ==
    LET centered == [i \in 1..Len(p) |->
                        IF p[i] > e.t \div 2 THEN Wrap(p[i] - e.t) ELSE p[i]]
    IN  IF num_values # 0 THEN SubSeq(centered, 1, Min(num_values, Len(p)))
        ELSE centered

\* The engine's add (its source is not part of the package at hand): the
\* componentwise sum of two ciphertexts of the same size.
homomorphic_add(e, x, y) ==
    Ciphertext([k \in 1..size(x) |-> add(x.c[k], y.c[k], e.ring_q)], x.params)

-----------------------------------------------------------------------------
(* The client: one engine, two operand ciphertexts, one result.            *)

\* The engines a run starts from: those the constructors build from the
\* given arguments, with t < q.  Kind "base" is BFVScheme, "accelerated" is
\* BFVSchemeAccelerated with the backend present, "fallback" is
\* BFVSchemeAccelerated whose backend raised while being initialised.
\* sigma = 0 stands for any sigma below 1 (sampler bound 0), sigma = 1 for
\* any sigma in [1, 2) (sampler bound 6).
EngineOf(kind, N, t, qb, sg) ==
    IF kind = "base" THEN BaseInit(N, t, qb, sg)
    ELSE AcceleratedInit(N, t, qb, sg, TRUE, kind = "fallback")

ValidEngines(Kinds, Ns, Ts, QBs, Sigmas) ==
    {e \in {EngineOf(k, N, t, qb, sg) :
                k \in Kinds, N \in Ns, t \in Ts, qb \in QBs, sg \in Sigmas} :
        e.t < e.q}

ClientInit(engines) ==
    /\ fhe \in engines
    /\ secret_key = None /\ public_key = None /\ relin_key = None
    /\ ct1 = NoCt /\ ct2 = NoCt /\ ct3 = NoCt /\ op3 = "none"
    /\ pt = None /\ ptof = 0
    /\ call = "none" /\ err = "none"
    /\ msg1 = None /\ msg2 = None
    /\ noise_in = 0 /\ val = None
    /\ CPP_AVAILABLE = TRUE

\* A call that raises leaves everything else as it was.
Raise(name, exc) ==
    /\ call' = name /\ err' = exc
    /\ UNCHANGED <<CPP_AVAILABLE, val, noise_in, fhe, secret_key, public_key, relin_key, ct1, ct2, ct3, op3,
                   pt, ptof, msg1, msg2>>

\* fhe.key_generation(), called once by the client.
KeyGeneration ==
    /\ secret_key = None
    /\ \E s \in random_ternary(fhe.ring_N) :
       \E a \in random_uniform(fhe.ring_N, fhe.ring_q) :
       \E er \in sample_bounded(fhe.N, SamplerBound(fhe)) :
          LET k == key_generation(fhe, s, a, er)
          IN  secret_key' = k[1] /\ public_key' = k[2]
    /\ call' = "key_generation" /\ err' = "none"
    /\ UNCHANGED <<CPP_AVAILABLE, val, noise_in, fhe, relin_key, ct1, ct2, ct3, op3, pt, ptof, msg1, msg2>>

\* fhe.generate_relin_key(), called before anything is encrypted.
GenerateRelinKey ==
    /\ relin_key = None /\ ct1 = NoCt
    /\ IF secret_key = None THEN Raise("generate_relin_key", "ValueError")
       ELSE /\ \E a0 \in random_uniform(fhe.ring_N, fhe.ring_q) :
               \E e0 \in sample_bounded(fhe.N, SamplerBound(fhe)) :
               \E a1 \in random_uniform(fhe.ring_N, fhe.ring_q) :
               \E e1 \in sample_bounded(fhe.N, SamplerBound(fhe)) :
                  relin_key' = generate_relin_key(fhe, secret_key, a0, e0, a1, e1)
            /\ call' = "generate_relin_key" /\ err' = "none"
            /\ UNCHANGED <<CPP_AVAILABLE, val, noise_in, fhe, secret_key, public_key, ct1, ct2, ct3, op3, pt,
                           ptof, msg1, msg2>>

\* fhe.encrypt(plaintext) into the first free operand slot.
Encrypt ==
    /\ ct2 = NoCt /\ pt = None
    /\ IF public_key = None THEN Raise("encrypt", "ValueError")
       ELSE /\ \E m \in Polys(0..(fhe.t - 1), fhe.N) :
               \E u \in random_ternary(fhe.ring_N) :
               \E e1 \in sample_bounded(fhe.N, SamplerBound(fhe)) :
               \E e2 \in sample_bounded(fhe.N, SamplerBound(fhe)) :
                  LET ct == encrypt(fhe, public_key, m, u, e1, e2)
                  IN  IF ct1 = NoCt
                      THEN ct1' = ct /\ msg1' = m /\ UNCHANGED <<ct2, msg2>>
                      ELSE ct2' = ct /\ msg2' = m /\ UNCHANGED <<ct1, msg1>>
            /\ call' = "encrypt" /\ err' = "none"
            /\ UNCHANGED <<CPP_AVAILABLE, val, noise_in, fhe, secret_key, public_key, relin_key, ct3, op3, pt, ptof>>

\* The client's latest ciphertext: the result if there is one, else the
\* only operand.  0 when there is none, or two operands and no result yet.
Latest ==
    IF ct3 # NoCt THEN 3
    ELSE IF ct1 # NoCt /\ ct2 = NoCt THEN 1
    ELSE 0

Slot(k) == IF k = 1 THEN ct1 ELSE IF k = 2 THEN ct2 ELSE ct3

\* fhe.decrypt(ciphertext) of the client's latest ciphertext; an engine that
\* holds no secret key is handed a ciphertext made elsewhere.
Decrypt ==
    /\ pt = None
    /\ IF secret_key = None THEN Raise("decrypt", "ValueError")
       ELSE /\ Latest # 0
            /\ pt' = decrypt(fhe, secret_key, Slot(Latest))
            /\ ptof' = Latest
            /\ call' = "decrypt" /\ err' = "none"
            /\ UNCHANGED <<CPP_AVAILABLE, val, noise_in, fhe, secret_key, public_key, relin_key, ct1, ct2,
                           ct3, op3, msg1, msg2>>

\* FastFHE_Custom.homomorphic_sub(ct1, ct2).  Unpacking the components of
\* an operand into two names raises ValueError unless it has two.
HomomorphicSub ==
    /\ ct1 # NoCt /\ ct2 # NoCt /\ ct3 = NoCt
    /\ IF size(ct1) # 2 \/ size(ct2) # 2
       THEN Raise("homomorphic_sub", "ValueError")
       ELSE /\ ct3' = homomorphic_sub(fhe, ct1, ct2)
            /\ op3' = "sub"
            /\ call' = "homomorphic_sub" /\ err' = "none"
            /\ UNCHANGED <<CPP_AVAILABLE, val, noise_in, fhe, secret_key, public_key,
                           relin_key, ct1, ct2, pt, ptof, msg1, msg2>>

\* fhe.add(ct1, ct2), which the specification has fail with
\* ParameterMismatch unless the operands' parameters match.
HomomorphicAdd ==
    /\ ct1 # NoCt /\ ct2 # NoCt /\ ct3 = NoCt
    /\ IF ct1.params # ct2.params
       THEN Raise("add", "ParameterMismatch")
       ELSE /\ ct3' = homomorphic_add(fhe, ct1, ct2)
            /\ op3' = "add"
            /\ call' = "add" /\ err' = "none"
            /\ UNCHANGED <<CPP_AVAILABLE, val, noise_in, fhe, secret_key, public_key,
                           relin_key, ct1, ct2, pt, ptof, msg1, msg2>>

\* fhe.multiply(ct1, ct2) on an engine that multiplies in Python.
\* Unpacking the components of an operand into two names raises ValueError
\* unless it has two.
Multiply ==
    /\ ~fhe.use_cpp
    /\ ct1 # NoCt /\ ct2 # NoCt /\ ct3 = NoCt
    /\ IF size(ct1) # 2 \/ size(ct2) # 2
       THEN Raise("multiply", "ValueError")
       ELSE /\ ct3' = multiply(fhe, ct1, ct2)
            /\ op3' = "multiply"
            /\ call' = "multiply" /\ err' = "none"
            /\ UNCHANGED <<CPP_AVAILABLE, val, noise_in, fhe, secret_key, public_key,
                           relin_key, ct1, ct2, pt, ptof, msg1, msg2>>

\* fhe.relinearize(ct3) of the client's result.  A result that has three
\* components needs the relinearization key: with none installed,
\* self.relin_key.get_components() raises AttributeError.
Relinearize ==
    /\ ct3 # NoCt /\ pt = None
    /\ IF size(ct3) = 3 /\ relin_key = None
       THEN Raise("relinearize", "AttributeError")
       ELSE /\ ct3' = relinearize(fhe, relin_key, ct3)
            /\ op3' = IF size(ct3) = 3 THEN "relinearize" ELSE op3
            /\ call' = "relinearize" /\ err' = "none"
            /\ UNCHANGED <<CPP_AVAILABLE, val, noise_in, fhe, secret_key, public_key,
                           relin_key, ct1, ct2, pt, ptof, msg1, msg2>>

\* A mod_center that subtracts q in the array it was passed (a seeded
\* fault).
mod_center_in_place(a, q) == mod_center(a, q)

\* The array passed to mod_center, after the call: mod_center subtracts q
\* in a copy of it.
mod_center_argument(a, q) == a

\* fhe.decode(pt) of the decrypted plaintext.
Decode ==
    /\ pt # None /\ val = None
    /\ val' = <<decode(fhe, pt)>>
    /\ pt' = mod_center_argument(pt, fhe.ring_q)
    /\ call' = "decode" /\ err' = "none"
    /\ UNCHANGED <<CPP_AVAILABLE, noise_in, fhe, secret_key, public_key, relin_key,
                   ct1, ct2, ct3, op3, ptof, msg1, msg2>>

\* FastFHE_Custom.decrypt_batch(ctxt, num_values) of the client's latest
\* ciphertext; num_values = 0 stands for None as well.
DecryptBatch ==
    /\ pt = None /\ val = None
    /\ IF secret_key = None THEN Raise("decrypt_batch", "ValueError")
       ELSE /\ Latest # 0
            /\ pt' = decrypt(fhe, secret_key, Slot(Latest))
            /\ ptof' = Latest
            /\ \E num_values \in 0..fhe.N :
                  val' = decrypt_batch(fhe, pt', num_values)
            /\ call' = "decrypt_batch" /\ err' = "none"
            /\ UNCHANGED <<CPP_AVAILABLE, noise_in, fhe, secret_key, public_key,
                           relin_key, ct1, ct2, ct3, op3, msg1, msg2>>

\* The client passes its result on as the first operand of its next call.
Reuse ==
    /\ ct3 # NoCt /\ pt = None
    /\ ct1' = ct3 /\ msg1' = None
    /\ ct3' = NoCt /\ op3' = "none"
    /\ UNCHANGED <<CPP_AVAILABLE, val, noise_in, fhe, secret_key, public_key,
                   relin_key, ct2, pt, ptof, msg2, call, err>>

-----------------------------------------------------------------------------
(* Spec: the additive client (encrypt, subtract or add, decrypt).          *)

\* Noise-free engines of degree 1, of degree 2, and one noisy engine.
QuietEngines1 == ValidEngines({"base", "accelerated"}, {1}, 2..MaxT, 2..MaxQBits, {0})
QuietEngines2 == ValidEngines({"base"}, {2}, {2}, {2}, {0})
NoisyEngines == ValidEngines({"base"}, {1}, {2}, {2}, {1})

Init == ClientInit(QuietEngines1 \cup QuietEngines2 \cup NoisyEngines)

Next ==
    \/ KeyGeneration
    \/ Encrypt
    \/ Decrypt
    \/ HomomorphicSub
    \/ HomomorphicAdd

Spec == Init /\ [][Next]_vars

-----------------------------------------------------------------------------
(* SpecMul: the multiplicative client (encrypt, multiply, relinearize,     *)
(* decrypt) on engines that multiply in Python.                            *)

MulEngines ==
    ValidEngines({"base", "fallback"}, {1}, {2, 3}, {2}, {0})
        \cup ValidEngines({"base"}, {1}, {2}, {3}, {0})

InitMul == ClientInit(MulEngines)

NextMul ==
    \/ KeyGeneration
    \/ GenerateRelinKey
    \/ Encrypt
    \/ Multiply
    \/ Relinearize
    \/ Decrypt

SpecMul == InitMul /\ [][NextMul]_vars

-----------------------------------------------------------------------------
(* SpecOps: a client that uses every operation of the engine and feeds     *)
(* results back as operands.                                               *)

OpsEngines == ValidEngines({"base"}, {1}, {2}, {2}, {0})

InitOps == ClientInit(OpsEngines)

NextOps ==
    \/ KeyGeneration
    \/ GenerateRelinKey
    \/ Encrypt
    \/ HomomorphicSub
    \/ Multiply
    \/ Relinearize
    \/ Reuse
    \/ Decrypt
    \/ Decode

SpecOps == InitOps /\ [][NextOps]_vars

-----------------------------------------------------------------------------
(* SpecPure: one pass through every operation on an engine whose           *)
(* plaintext coefficients can exceed q // 2.                               *)

PureEngines == ValidEngines({"fallback"}, {1}, {4}, {2}, {0})

InitPure == ClientInit(PureEngines)

NextPure ==
    \/ KeyGeneration
    \/ GenerateRelinKey
    \/ Encrypt
    \/ HomomorphicSub
    \/ Multiply
    \/ Relinearize
    \/ Decrypt
    \/ Decode

SpecPure == InitPure /\ [][NextPure]_vars

-----------------------------------------------------------------------------
(* SpecCodec: encrypt, decrypt and decode, scalar and batched.             *)

CodecEngines ==
    ValidEngines({"base", "fallback"}, {1}, {2, 3, 4}, {2, 3}, {0})
        \cup ValidEngines({"base"}, {2}, {2}, {2}, {0})

InitCodec == ClientInit(CodecEngines)

NextCodec ==
    \/ KeyGeneration
    \/ Encrypt
    \/ Decrypt
    \/ Decode
    \/ DecryptBatch

SpecCodec == InitCodec /\ [][NextCodec]_vars

-----------------------------------------------------------------------------
(* SpecTensor: multiply applied to arbitrary pairs of size-2 ciphertexts   *)
(* over the engine's ring.                                                 *)

TensorEngines ==
    ValidEngines({"base"}, {1}, {2, 3}, {2, 3}, {0})
        \cup ValidEngines({"fallback"}, {1}, {2, 3, 4}, {2}, {0})
        \cup ValidEngines({"base"}, {2}, {2}, {2}, {0})

InitTensor ==
    /\ fhe \in TensorEngines
    /\ secret_key = None /\ public_key = None /\ relin_key = None
    /\ ct1 \in CiphertextsOf(ParamsOf(fhe))
    /\ ct2 \in CiphertextsOf(ParamsOf(fhe))
    /\ ct3 = NoCt /\ op3 = "none"
    /\ pt = None /\ ptof = 0
    /\ call = "none" /\ err = "none"
    /\ msg1 = None /\ msg2 = None
    /\ noise_in = 0 /\ val = None
    /\ CPP_AVAILABLE = TRUE

NextTensor == Multiply

SpecTensor == InitTensor /\ [][NextTensor]_vars

-----------------------------------------------------------------------------
(* SpecRelin: relinearize applied to every product of two size-2           *)
(* ciphertexts, under relinearization keys with and without error.         *)

RelinEngines == ValidEngines({"fallback"}, {1}, {3}, {2}, {1})

\* The sampler outputs the keys of these runs are made with.
RelinErrors(e) == {p \in sample_bounded(e.N, SamplerBound(e)) :
                      \A i \in 1..e.N : p[i] \in {0, 1}}

\* The state after key_generation, generate_relin_key and one multiply.
InitRelin ==
    /\ fhe \in RelinEngines
    /\ \E s \in random_ternary(fhe.ring_N) :
          /\ secret_key = key_generation(fhe, s, Zero(fhe.N), Zero(fhe.N))[1]
          /\ public_key = key_generation(fhe, s, Zero(fhe.N), Zero(fhe.N))[2]
    /\ \E a0 \in random_uniform(fhe.ring_N, fhe.ring_q) :
       \E e0 \in RelinErrors(fhe) :
       \E a1 \in random_uniform(fhe.ring_N, fhe.ring_q) :
       \E e1 \in RelinErrors(fhe) :
          relin_key = generate_relin_key(fhe, secret_key, a0, e0, a1, e1)
    /\ ct1 \in CiphertextsOf(ParamsOf(fhe))
    /\ ct2 \in CiphertextsOf(ParamsOf(fhe))
    /\ ct3 = multiply(fhe, ct1, ct2) /\ op3 = "multiply"
    /\ pt = None /\ ptof = 0
    /\ call = "multiply" /\ err = "none"
    /\ msg1 = None /\ msg2 = None
    /\ noise_in = 0 /\ val = None
    /\ CPP_AVAILABLE = TRUE

NextRelin == Relinearize

SpecRelin == InitRelin /\ [][NextRelin]_vars

-----------------------------------------------------------------------------
(* SpecKeys: any sequence of key_generation and generate_relin_key calls   *)
(* on one engine, small moduli and moduli at the top of the word.          *)

\* Noise-free engines with small q, and engines of degree 2 built with
\* q_bits two below the word width, as q_bits = 62 is for 64-bit words.
KeysEngines ==
    ValidEngines({"base", "accelerated"}, {1}, {2}, {2, 3}, {0})
        \cup ValidEngines({"base", "accelerated"}, {2}, {2}, {IntBits - 2}, {0})

\* The outputs of random_uniform the runs are made with.
UniformDraws(e) ==
    IF e.ring_q <= MaxFullDraw THEN random_uniform(e.ring_N, e.ring_q)
    ELSE Polys({0, e.ring_q - 1}, e.ring_N)

\* fhe.key_generation(), a first call or a later one: it installs a new
\* secret and public key and leaves self.relin_key as it is.
KeyGenerationCall ==
    /\ \E s \in random_ternary(fhe.ring_N) :
       \E a \in UniformDraws(fhe) :
       \E er \in sample_bounded(fhe.N, SamplerBound(fhe)) :
          LET k == key_generation(fhe, s, a, er)
          IN  secret_key' = k[1] /\ public_key' = k[2]
    /\ call' = "key_generation" /\ err' = "none"
    /\ UNCHANGED <<CPP_AVAILABLE, val, noise_in, fhe, relin_key, ct1, ct2, ct3, op3,
                   pt, ptof, msg1, msg2>>

\* fhe.generate_relin_key(), a first call or a later one.
GenerateRelinKeyCall ==
    IF secret_key = None THEN Raise("generate_relin_key", "ValueError")
    ELSE /\ \E a0 \in UniformDraws(fhe) :
            \E e0 \in sample_bounded(fhe.N, SamplerBound(fhe)) :
            \E a1 \in UniformDraws(fhe) :
            \E e1 \in sample_bounded(fhe.N, SamplerBound(fhe)) :
               relin_key' = generate_relin_key(fhe, secret_key, a0, e0, a1, e1)
         /\ call' = "generate_relin_key" /\ err' = "none"
         /\ UNCHANGED <<CPP_AVAILABLE, val, noise_in, fhe, secret_key, public_key,
                        ct1, ct2, ct3, op3, pt, ptof, msg1, msg2>>

InitKeys == ClientInit(KeysEngines)

NextKeys ==
    \/ KeyGenerationCall
    \/ GenerateRelinKeyCall

SpecKeys == InitKeys /\ [][NextKeys]_vars

-----------------------------------------------------------------------------
(* SpecWord: PolynomialRing.add and PolynomialRing.sub applied to residues *)
(* of small moduli and of moduli at the top of the word.                   *)

\* Engines of degree 1 with small q, and with q_bits three and two below
\* the word width, as q_bits = 61 and 62 are for 64-bit words.
WordEngines ==
    ValidEngines({"base", "accelerated"}, {1}, {2},
                 {2, 3, IntBits - 3, IntBits - 2}, {0})

\* The coefficients the operands are drawn from: every residue of a small
\* modulus, the ends and the middle of a large one.
Residues(q) ==
    IF q <= MaxFullDraw THEN 0..(q - 1)
    ELSE {0, 1, q \div 2, q - 2, q - 1}

InitWord ==
    /\ fhe \in WordEngines
    /\ secret_key = None /\ public_key = None /\ relin_key = None
    /\ ct1 = NoCt /\ ct2 = NoCt /\ ct3 = NoCt /\ op3 = "none"
    /\ pt = None /\ ptof = 0
    /\ call = "none" /\ err = "none"
    /\ msg1 \in Polys(Residues(fhe.ring_q), fhe.ring_N)
    /\ msg2 \in Polys(Residues(fhe.ring_q), fhe.ring_N)
    /\ noise_in = 0 /\ val = None
    /\ CPP_AVAILABLE = TRUE

\* fhe.poly_ring.add(a, b) of the two arrays.
PolyAdd ==
    /\ val = None
    /\ val' = add(msg1, msg2, fhe.ring_q)
    /\ call' = "PolynomialRing.add" /\ err' = "none"
    /\ UNCHANGED <<CPP_AVAILABLE, noise_in, fhe, secret_key, public_key, relin_key,
                   ct1, ct2, ct3, op3, pt, ptof, msg1, msg2>>

\* fhe.poly_ring.sub(a, b) of the two arrays.
PolySub ==
    /\ val = None
    /\ val' = sub(msg1, msg2, fhe.ring_q)
    /\ call' = "PolynomialRing.sub" /\ err' = "none"
    /\ UNCHANGED <<CPP_AVAILABLE, noise_in, fhe, secret_key, public_key, relin_key,
                   ct1, ct2, ct3, op3, pt, ptof, msg1, msg2>>

NextWord ==
    \/ PolyAdd
    \/ PolySub

SpecWord == InitWord /\ [][NextWord]_vars

-----------------------------------------------------------------------------
(* SpecMix: a server that subtracts or adds ciphertexts it was sent, one   *)
(* of which may have been made under other parameters.                     *)

MixEngines == ValidEngines({"base"}, {1}, {2}, {2, 3}, {0})

\* The parameters of the other engines a ciphertext of the same degree can
\* come from.
ForeignParams(e) ==
    {ParamsOf(x) : x \in ValidEngines({"base"}, {e.N}, {2, 3}, {2, 3}, {0})}
        \ {ParamsOf(e)}

\* pickle.load of an uploaded ciphertext that was made by another engine.
ReceiveForeign ==
    /\ ct1 # NoCt /\ ct2 = NoCt /\ pt = None
    /\ \E p \in ForeignParams(fhe) : ct2' \in CiphertextsOf(p)
    /\ call' = "pickle.load" /\ err' = "none"
    /\ UNCHANGED <<CPP_AVAILABLE, val, noise_in, fhe, secret_key, public_key,
                   relin_key, ct1, ct3, op3, pt, ptof, msg1, msg2>>

InitMix == ClientInit(MixEngines)

NextMix ==
    \/ KeyGeneration
    \/ Encrypt
    \/ ReceiveForeign
    \/ HomomorphicSub
    \/ HomomorphicAdd

SpecMix == InitMix /\ [][NextMix]_vars

-----------------------------------------------------------------------------
(* SpecCtor: the constructors, called with arbitrary small arguments.      *)

InitCtor ==
    /\ fhe = NoEngine
    /\ secret_key = None /\ public_key = None /\ relin_key = None
    /\ ct1 = NoCt /\ ct2 = NoCt /\ ct3 = NoCt /\ op3 = "none"
    /\ pt = None /\ ptof = 0
    /\ call = "none" /\ err = "none"
    /\ msg1 = None /\ msg2 = None
    /\ noise_in = 0 /\ val = None
    /\ CPP_AVAILABLE \in BOOLEAN

\* BFVScheme(N, t, q_bits, sigma)
ConstructBase ==
    /\ call = "none"
    /\ \E N \in 0..MaxN : \E t \in 0..MaxT : \E q_bits \in 1..MaxQBits :
       \E sigma \in {0, 1} :
          /\ err' = BaseInitError(N, t, q_bits)
          /\ fhe' = IF err' = "none" THEN BaseInit(N, t, q_bits, sigma) ELSE NoEngine
    /\ call' = "BFVScheme"
    /\ UNCHANGED <<CPP_AVAILABLE, val, noise_in, secret_key, public_key, relin_key, ct1, ct2, ct3, op3,
                   pt, ptof, msg1, msg2>>

\* BFVSchemeAccelerated(N, t, q_bits, sigma) of bfv_accelerated.py, whose
\* import guard has left CPP_AVAILABLE true or false.
ConstructAccelerated ==
    /\ call = "none"
    /\ \E N \in 0..MaxN : \E t \in 0..MaxT : \E q_bits \in 1..MaxQBits :
       \E sigma \in {0, 1} : \E cpp_raises \in BOOLEAN :
          /\ err' = BaseInitError(N, t, q_bits)
          /\ fhe' = IF err' = "none"
                    THEN AcceleratedInit(N, t, q_bits, sigma, CPP_AVAILABLE, cpp_raises)
                    ELSE NoEngine
    /\ call' = "BFVSchemeAccelerated"
    /\ UNCHANGED <<CPP_AVAILABLE, val, noise_in, secret_key, public_key, relin_key,
                   ct1, ct2, ct3, op3, pt, ptof, msg1, msg2>>

\* import example_accelerated followed by its BFVSchemeAccelerated(N, t,
\* q_bits, sigma): the module's import guard calls exit(1) when
\* fhe_fast_mult cannot be imported.
ConstructExampleAccelerated ==
    /\ call = "none"
    /\ IF ~CPP_AVAILABLE
       THEN /\ err' = "SystemExit"
            /\ fhe' = NoEngine
       ELSE \E N \in 0..MaxN : \E t \in 0..MaxT : \E q_bits \in 1..MaxQBits :
            \E sigma \in {0, 1} : \E cpp_raises \in BOOLEAN :
               /\ err' = BaseInitError(N, t, q_bits)
               /\ fhe' = IF err' = "none"
                         THEN AcceleratedInit(N, t, q_bits, sigma, TRUE, cpp_raises)
                         ELSE NoEngine
    /\ call' = "example_accelerated.BFVSchemeAccelerated"
    /\ UNCHANGED <<CPP_AVAILABLE, val, noise_in, secret_key, public_key, relin_key,
                   ct1, ct2, ct3, op3, pt, ptof, msg1, msg2>>

NextCtor ==
    \/ ConstructBase
    \/ ConstructAccelerated
    \/ ConstructExampleAccelerated

SpecCtor == InitCtor /\ [][NextCtor]_vars

-----------------------------------------------------------------------------
(* SpecScale: the decryption scaling applied to one coefficient            *)
(* v = (delta * m + e) mod q, for every message m and every noise e.       *)

ScaleEngines == ValidEngines({"base", "accelerated"}, {1}, 2..MaxT, 2..MaxQBits, {0})

\* The centered residues modulo q.
Centered(q) == (-(q \div 2))..((q - 1) \div 2)

InitScale ==
    /\ fhe \in ScaleEngines
    /\ secret_key = None /\ public_key = None /\ relin_key = None
    /\ ct1 = NoCt /\ ct2 = NoCt /\ ct3 = NoCt /\ op3 = "none"
    /\ pt = None /\ ptof = 0
    /\ call = "none" /\ err = "none"
    /\ msg1 \in Polys(0..(fhe.t - 1), 1) /\ msg2 = None
    /\ noise_in \in Centered(fhe.q)
    /\ val = None
    /\ CPP_AVAILABLE = TRUE

\* The last line of decrypt, on the coefficient v.
Scale ==
    /\ pt = None
    /\ LET v == (fhe.delta * msg1[1] + noise_in) % fhe.q
       IN  pt' = <<scale(v, fhe.t, fhe.q)>>
    /\ call' = "scale"
    /\ UNCHANGED <<CPP_AVAILABLE, val, noise_in, fhe, secret_key, public_key, relin_key, ct1, ct2, ct3,
                   op3, ptof, err, msg1, msg2>>

NextScale == Scale

SpecScale == InitScale /\ [][NextScale]_vars

-----------------------------------------------------------------------------
(* Noise of a ciphertext, as the claims below measure it.                  *)

\* q mod t, the part of q that delta = q // t leaves out.
Eps(e) == e.q % e.t

\* c0 + c1*s (+ c2*s^2 for three components) mod q.
Phase(e, s, ct) ==
    LET two == add(ct.c[1], mul(ct.c[2], s, e.ring_N, e.ring_q), e.ring_q)
    IN  IF size(ct) = 3
        THEN add(two, mul(ct.c[3], mul(s, s, e.ring_N, e.ring_q), e.ring_N, e.ring_q),
                 e.ring_q)
        ELSE two

\* The centered residue of x modulo q.
Center(x, q) == IF x % q > q \div 2 THEN (x % q) - q ELSE x % q

\* The noise of ct as an encryption of m: Phase - delta*m, centered.
NoiseOf(e, s, ct, m) ==
    LET ph == Phase(e, s, ct)
    IN  [k \in 1..e.N |-> Center(ph[k] - e.delta * m[k], e.q)]

\* The scaling rounds delta*m + n back to m in every coefficient:
\* -floor(q/2) <= t*n - (q mod t)*m < q - floor(q/2).
InWindow(e, n, m) ==
    \A k \in 1..e.N :
        /\ -(e.q \div 2) <= e.t * n[k] - Eps(e) * m[k]
        /\ e.t * n[k] - Eps(e) * m[k] < e.q - (e.q \div 2)

\* The noise lies strictly inside (-delta/2, delta/2) in every coefficient.
InHalfDelta(e, n) == \A k \in 1..e.N : 2 * Abs(n[k]) < e.delta

\* The largest noise a fresh ciphertext carries: e1 + e2*s - e*u with every
\* error coefficient in [-B, B] and s, u ternary.
FreshNoiseBound(e) == SamplerBound(e) * (2 * e.N + 1)

\* n is, modulo q, a noise of absolute value at most bound everywhere.
NoiseWithin(e, n, bound) ==
    \A k \in 1..e.N : \E j \in (-bound)..bound : (n[k] - j) % e.q = 0

-----------------------------------------------------------------------------
(* Claims about the additive client (Spec).                                *)

\* C1 as stated: decrypt(encrypt(m)) has exactly the coefficients of m.
C1_roundtrip_for_all_parameters ==
    (ptof = 1 /\ pt # None) => pt = msg1

\* C1 amended: a fresh ciphertext carries noise of at most B*(2N+1), and
\* decrypt(encrypt(m)) has exactly the coefficients of m whenever that
\* noise lies in the rounding window of m.
C1_roundtrip_within_rounding_window ==
    (ptof = 1 /\ pt # None) =>
        LET n == NoiseOf(fhe, secret_key, ct1, msg1)
        IN  /\ NoiseWithin(fhe, n, FreshNoiseBound(fhe))
            /\ InWindow(fhe, n, msg1) => pt = msg1

\* A non-zero message decrypted correctly from a ciphertext with non-zero
\* noise inside the rounding window.
C1_witness ==
    /\ ptof = 1 /\ pt # None /\ msg1 # Zero(fhe.N)
    /\ NoiseOf(fhe, secret_key, ct1, msg1) # Zero(fhe.N)
    /\ InWindow(fhe, NoiseOf(fhe, secret_key, ct1, msg1), msg1)
    /\ pt = msg1

\* (m1 - m2) mod t, coefficientwise.
DiffModT == [k \in 1..fhe.N |-> (msg1[k] - msg2[k]) % fhe.t]

\* (m1 + m2) mod t, coefficientwise.
SumModT == [k \in 1..fhe.N |-> (msg1[k] + msg2[k]) % fhe.t]

\* The noise of the difference of the operands as an encryption of
\* (m1 - m2) mod t: n1 - n2 + (q mod t) where m1 < m2, centered.
DiffNoise ==
    LET n1 == NoiseOf(fhe, secret_key, ct1, msg1)
        n2 == NoiseOf(fhe, secret_key, ct2, msg2)
    IN  [k \in 1..fhe.N |->
            Center(n1[k] - n2[k] + (IF msg1[k] < msg2[k] THEN Eps(fhe) ELSE 0), fhe.q)]

\* The noise of the sum of the operands as an encryption of (m1 + m2) mod t:
\* n1 + n2 - (q mod t) where m1 + m2 >= t, centered.
SumNoise ==
    LET n1 == NoiseOf(fhe, secret_key, ct1, msg1)
        n2 == NoiseOf(fhe, secret_key, ct2, msg2)
    IN  [k \in 1..fhe.N |->
            Center(n1[k] + n2[k] - (IF msg1[k] + msg2[k] >= fhe.t THEN Eps(fhe) ELSE 0),
                   fhe.q)]

\* Both operands encode one integer: coefficient 0, zero elsewhere.
ScalarOperands ==
    \A k \in 2..fhe.N : msg1[k] = 0 /\ msg2[k] = 0

\* C2 as stated: for integers m1, m2 the difference decrypts to
\* (m1 - m2) mod t in coefficient 0 and to 0 elsewhere.
C2_sub_decrypts_to_difference ==
    (op3 = "sub" /\ ptof = 3 /\ ScalarOperands) => pt = DiffModT

\* C2 amended: the difference decrypts to (m1 - m2) mod t coefficientwise
\* whenever the operands' noises n1, n2 put n1 - n2 + (q mod t)[m1 < m2] in
\* the rounding window of the result.
C2_sub_within_rounding_window ==
    (op3 = "sub" /\ ptof = 3 /\ InWindow(fhe, DiffNoise, DiffModT)) => pt = DiffModT

\* Integers m1 < m2 in a ring of degree 2, subtracted and decrypted to
\* t - (m2 - m1) in coefficient 0 and 0 in coefficient 1.
C2_witness ==
    /\ op3 = "sub" /\ ptof = 3 /\ fhe.N = 2 /\ ScalarOperands
    /\ msg1[1] < msg2[1]
    /\ InWindow(fhe, DiffNoise, DiffModT)
    /\ pt = <<fhe.t - (msg2[1] - msg1[1]), 0>>

IsMatch == decrypt_batch(fhe, pt, 1)[1] = 0

-----------------------------------------------------------------------------
(* Claims about the multiplicative client (SpecMul).                       *)

\* m1 * m2 in the ring, reduced mod t.
ProductModT == mul(msg1, msg2, fhe.N, fhe.t)

\* The error a relinearization key component <<b, a>> carries as an
\* encryption of poly_msg: poly_msg - b - a*s mod q.
KeyError(k, poly_msg) ==
    sub(poly_msg, add(k[1], mul(k[2], secret_key, fhe.ring_N, fhe.ring_q), fhe.ring_q),
        fhe.ring_q)

\* The noise of the relinearized product as an encryption of m1*m2 mod t:
\* the noise of the three-component product d minus d2_0*e0 + d2_1*e1,
\* where d2 = d2_0 + T*d2_1 and e0, e1 are the key's errors.
RelinNoise ==
    LET d    == multiply(fhe, ct1, ct2)
        s2   == mul(secret_key, secret_key, fhe.ring_N, fhe.ring_q)
        e0   == KeyError(relin_key[1], s2)
        e1   == KeyError(relin_key[2], mul_scalar(s2, fhe.T, fhe.ring_q))
        d2_0 == [k \in 1..fhe.N |-> d.c[3][k] % fhe.T]
        d2_1 == [k \in 1..fhe.N |-> d.c[3][k] \div fhe.T]
        lost == add(mul(d2_0, e0, fhe.ring_N, fhe.ring_q),
                    mul(d2_1, e1, fhe.ring_N, fhe.ring_q), fhe.ring_q)
        n3   == NoiseOf(fhe, secret_key, d, ProductModT)
    IN  [k \in 1..fhe.N |-> Center(n3[k] - lost[k], fhe.q)]

\* The relinearized product has been decrypted.
ProductDecrypted == op3 = "relinearize" /\ ptof = 3

MissingKeyCall ==
    \/ call = "encrypt" /\ public_key = None
    \/ call = "decrypt" /\ secret_key = None
    \/ call = "generate_relin_key" /\ secret_key = None
    \/ call = "relinearize" /\ relin_key = None /\ size(ct3) = 3

\* C10 as stated: an operation whose key is missing fails with the key
\* error (ValueError in this code).
C10_missing_key_raises_key_error ==
    MissingKeyCall => err = "ValueError"

\* C10, the part that holds: a call that raises leaves the keys unchanged.
C10_failed_call_keeps_keys ==
    [][err' # "none" => UNCHANGED <<secret_key, public_key, relin_key>>]_vars

-----------------------------------------------------------------------------
(* Claims about mixed parameters (SpecMix).                                *)

\* The two operands carry different parameters.
ParamsDiffer == ct1 # NoCt /\ ct2 # NoCt /\ ct1.params # ct2.params

\* C11 as stated: add or sub of two ciphertexts that carry different
\* parameters fails with ParameterMismatch and produces no result.
C11_mismatch_is_rejected ==
    (ParamsDiffer /\ call \in {"homomorphic_sub", "add"}) =>
        (err = "ParameterMismatch" /\ ct3 = NoCt)

-----------------------------------------------------------------------------
(* Claims about the shape of ciphertexts and keys (SpecOps).               *)

\* p has exactly N coefficients, each in [0, q).
Reduced(p, N, q) == Len(p) = N /\ \A i \in 1..Len(p) : p[i] \in 0..(q - 1)

AllReduced(ps) == \A k \in 1..Len(ps) : Reduced(ps[k], fhe.N, fhe.q)

SizeOk(ct) == ct = NoCt \/ size(ct) \in {2, 3}

\* C13: every ciphertext has size 2 or 3; encrypt returns size 2, multiply
\* of two size-2 ciphertexts returns size 3, relinearize of a size-3
\* ciphertext returns size 2, and a size-3 ciphertext is produced by
\* nothing but a multiply of two size-2 ciphertexts (a size-3 operand is
\* a product handed on).
C13_ciphertext_sizes ==
    [][/\ SizeOk(ct1') /\ SizeOk(ct2') /\ SizeOk(ct3')
       /\ (Encrypt /\ err' = "none") =>
              IF ct1 = NoCt THEN size(ct1') = 2 ELSE size(ct2') = 2
       /\ (Multiply /\ err' = "none") => size(ct3') = 3
       /\ (Relinearize /\ err' = "none" /\ size(ct3) = 3) => size(ct3') = 2
       /\ (size(ct3') = 3 /\ ct3' # ct3) =>
              (Multiply /\ size(ct1) = 2 /\ size(ct2) = 2)
       /\ (size(ct1') = 3 /\ ct1' # ct1) => (Reuse /\ ct1' = ct3)
       /\ size(ct2') # 3]_vars

\* A product handed on as an operand was refused by multiply.
C13_witness ==
    /\ size(ct1) = 3 /\ ct2 # NoCt
    /\ call = "multiply" /\ err = "ValueError"

-----------------------------------------------------------------------------
(* Claims about purity (SpecPure).                                         *)

-----------------------------------------------------------------------------
(* Claims about the decryption scaling (SpecScale).                        *)

\* t * noise - (q mod t) * m: the offset the scaling has to round away.
ScaleOffset == fhe.t * noise_in - Eps(fhe) * msg1[1]

\* C6 as stated: whenever the noise lies strictly inside (-delta/2, delta/2),
\* the scaling of (delta*m + e) mod q returns m.
C6_scaling_within_half_delta ==
    (pt # None /\ 2 * Abs(noise_in) < fhe.delta) => pt[1] = msg1[1]

\* C6 amended: the scaling of (delta*m + e) mod q returns m whenever
\* -floor(q/2) <= t*e - (q mod t)*m < q - floor(q/2).
C6_scaling_within_rounding_window ==
    (/\ pt # None
     /\ -(fhe.q \div 2) <= ScaleOffset
     /\ ScaleOffset < fhe.q - (fhe.q \div 2))
    => pt[1] = msg1[1]

\* A scaled coefficient with non-zero message and non-zero noise inside the
\* rounding window, on an engine where t does not divide q.
C6_witness ==
    /\ pt # None /\ msg1[1] # 0 /\ noise_in < 0 /\ Eps(fhe) # 0
    /\ -(fhe.q \div 2) <= ScaleOffset
    /\ ScaleOffset < fhe.q - (fhe.q \div 2)
    /\ pt[1] = msg1[1]

-----------------------------------------------------------------------------
(* Claims about construction (SpecCtor).                                   *)

\* n is a prime number.
Prime(n) == n > 1 /\ \A d \in 2..(n - 1) : n % d # 0

\* n is a power of two.
IsPowerOfTwo(n) == \E k \in 0..n : n = 2^k

\* C7 as stated: the modulus a constructed engine ends up with is prime, is
\* 1 modulo 2N and is at least 2^(q_bits - 1).
C7_final_q_is_ntt_prime ==
    (fhe.ok /\ fhe.N >= 1) =>
        /\ Prime(fhe.q)
        /\ fhe.q % (2 * fhe.N) = 1
        /\ fhe.q >= 2^(fhe.q_bits - 1)

\* C7, the accelerated path: with the backend active the modulus is the one
\* _find_ntt_prime(2^q_bits, N) returned, and it is prime.
C7_find_ntt_prime_is_prime ==
    (fhe.ok /\ fhe.use_cpp) => Prime(fhe.q)

\* C8 as stated: delta, T and the ring's modulus follow the final q, and
\* T*T <= q.
C8_derived_parameters_T_squared_below_q ==
    fhe.ok =>
        /\ fhe.delta = fhe.q \div fhe.t
        /\ fhe.T = 2^(bit_length(fhe.q) \div 2)
        /\ fhe.ring_q = fhe.q
        /\ fhe.T * fhe.T <= fhe.q

\* C8 amended: delta, T and the ring's modulus follow the final q, and
\* T*T <= 2*q.
C8_derived_parameters ==
    fhe.ok =>
        /\ fhe.delta = fhe.q \div fhe.t
        /\ fhe.T = 2^(bit_length(fhe.q) \div 2)
        /\ fhe.ring_q = fhe.q
        /\ fhe.T * fhe.T <= 2 * fhe.q

\* An accelerated engine whose backend raised after the modulus had been
\* replaced, with T*T above q.
C8_witness ==
    /\ fhe.ok /\ fhe.kind = "accelerated" /\ ~fhe.use_cpp
    /\ fhe.q # 2^fhe.q_bits - 1
    /\ fhe.T * fhe.T > fhe.q
    /\ fhe.delta = fhe.q \div fhe.t

\* C9 as stated: a constructor that returns an engine was given a power of
\* two N >= 1 and t < q, and the engine's delta is not 0.
C9_construction_rejects_bad_parameters ==
    fhe.ok =>
        /\ IsPowerOfTwo(fhe.N)
        /\ fhe.t < fhe.q
        /\ fhe.delta # 0

-----------------------------------------------------------------------------
(* Claims about three-component ciphertexts (SpecMul) and about the        *)
(* backend fallback (SpecCtor).                                            *)

\* The plaintext the scaling gives for the phase of all three components.
ScaledPhase(e, s, ct) ==
    LET ph == Phase(e, s, ct)
    IN  [i \in 1..Len(ph) |-> scale(ph[i], e.t, e.q)]

\* C14 as stated: decrypt of a size-3 ciphertext (d0, d1, d2) returns the
\* scaled value of d0 + d1*s + d2*s^2 mod q (or rejects the ciphertext);
\* never a plaintext computed from d0 + d1*s alone.
C14_decrypt_uses_third_component ==
    (pt # None /\ ptof = 3 /\ size(ct3) = 3) =>
        pt = ScaledPhase(fhe, secret_key, ct3)

\* C15 as stated: constructing the accelerated engine never terminates the
\* program or fails because the backend is missing; with the backend
\* missing construction completes with use_cpp false.
C15_construction_falls_back ==
    call \in {"BFVSchemeAccelerated", "example_accelerated.BFVSchemeAccelerated"} =>
        /\ err # "SystemExit"
        /\ (err = "none" /\ ~CPP_AVAILABLE) => (fhe.ok /\ ~fhe.use_cpp)

-----------------------------------------------------------------------------
(* Claims about decoding (SpecCodec).                                      *)

\* The representative of x modulo t in [-floor(t/2), ceil(t/2)).
CenteredModT(x, t) == IF x % t >= (t + 1) \div 2 THEN (x % t) - t ELSE x % t

\* C17 as stated: scalar decode of coefficient 0, and batched decode of the
\* first k coefficients, return the representative of the coefficient in
\* the centered window [-floor(t/2), ceil(t/2)).
C17_decode_is_centered ==
    /\ (call = "decode" /\ val # None) => val[1] = CenteredModT(pt[1], fhe.t)
    /\ (call = "decrypt_batch" /\ val # None) =>
           \A i \in 1..Len(val) : val[i] = CenteredModT(pt[i], fhe.t)

\* The part of C17 about batched decode alone.
C17_batched_decode_is_centered ==
    (call = "decrypt_batch" /\ val # None) =>
        \A i \in 1..Len(val) : val[i] = CenteredModT(pt[i], fhe.t)

-----------------------------------------------------------------------------
(* Claims about the tensor product (SpecTensor).                           *)

\* C18: multiply(a, b) and multiply(b, a) have identical components, and
\* the componentwise sum of a and b is that of b and a.
C18_exchangeable ==
    op3 = "multiply" =>
        /\ ct3.c = multiply(fhe, ct2, ct1).c
        /\ \A k \in 1..2 : add(ct1.c[k], ct2.c[k], fhe.ring_q)
                               = add(ct2.c[k], ct1.c[k], fhe.ring_q)

\* Two different ciphertexts whose cross terms differ have been multiplied.
C18_witness ==
    /\ op3 = "multiply" /\ ct1 # ct2
    /\ mul_scale(fhe, ct1.c[1], ct2.c[2]) # mul_scale(fhe, ct2.c[1], ct1.c[2])

\* The raw tensor component over the integers, folded negacyclically.
RawTensor(e, p1, p2) == negacyclic(convolve(p1, p2), e.N)

\* One rescaling of every coefficient: ((v*t + floor(q/2)) div q) mod q.
RescaleOnce(e, raw) ==
    [i \in 1..e.N |-> ((raw[i] * e.t + (e.q \div 2)) \div e.q) % e.q]

\* C19 as stated: every component of the product is the single rescaling
\* of its raw tensor component; d1 is the rescaling of the summed cross
\* term c1_0*c2_1 + c1_1*c2_0.
C19_each_component_rescaled_once ==
    op3 = "multiply" =>
        LET x0 == ct1.c[1]
            x1 == ct1.c[2]
            y0 == ct2.c[1]
            y1 == ct2.c[2]
            cross == [i \in 1..fhe.N |->
                         RawTensor(fhe, x0, y1)[i] + RawTensor(fhe, x1, y0)[i]]
        IN  /\ ct3.c[1] = RescaleOnce(fhe, RawTensor(fhe, x0, y0))
            /\ ct3.c[2] = RescaleOnce(fhe, cross)
            /\ ct3.c[3] = RescaleOnce(fhe, RawTensor(fhe, x1, y1))

-----------------------------------------------------------------------------
(* Claims about relinearization (SpecMul).                                 *)

\* relinearize as the specification words it: the digits d2_0 = d2 mod T
\* and d2_1 = floor(d2 / T) are taken of the centered representative of d2.
RelinearizeCentered(e, keys, d) ==
    LET d2c  == [i \in 1..Len(d.c[3]) |-> Center(d.c[3][i], e.q)]
        d2_0 == [i \in 1..Len(d2c) |-> d2c[i] % e.T]
        d2_1 == [i \in 1..Len(d2c) |-> d2c[i] \div e.T]
        c0   == add(d.c[1], add(mul(d2_0, keys[1][1], e.ring_N, e.ring_q),
                                mul(d2_1, keys[2][1], e.ring_N, e.ring_q), e.ring_q),
                    e.ring_q)
        c1   == add(d.c[2], add(mul(d2_0, keys[1][2], e.ring_N, e.ring_q),
                                mul(d2_1, keys[2][2], e.ring_N, e.ring_q), e.ring_q),
                    e.ring_q)
    IN  <<c0, c1>>

Digit0(d) == [k \in 1..Len(d.c[3]) |-> d.c[3][k] % fhe.T]
Digit1(d) == [k \in 1..Len(d.c[3]) |-> d.c[3][k] \div fhe.T]

\* d2_0*e0 + d2_1*e1 for the errors e0, e1 of the installed key.
RelinLoss(d) ==
    LET s2 == mul(secret_key, secret_key, fhe.ring_N, fhe.ring_q)
        e0 == KeyError(relin_key[1], s2)
        e1 == KeyError(relin_key[2], mul_scalar(s2, fhe.T, fhe.ring_q))
    IN  add(mul(Digit0(d), e0, fhe.ring_N, fhe.ring_q),
            mul(Digit1(d), e1, fhe.ring_N, fhe.ring_q), fhe.ring_q)

-----------------------------------------------------------------------------
(* Claims about the keys (SpecKeys).                                       *)

\* poly_msg - (b + a*s) over the integers, reduced mod q: the error the
\* pair k = <<b, a>> carries as an encryption of poly_msg under s.
ErrorOf(k, s, poly_msg) ==
    LET a_s == negacyclic(convolve(k[2], s), fhe.N)
    IN  [i \in 1..fhe.N |-> (poly_msg[i] - k[1][i] - a_s[i]) % fhe.q]

\* s^2 and T*s^2 in the ring, over the integers.
Squared(s) == negacyclic(convolve(s, s), fhe.N)
SquaredT(s) == [i \in 1..fhe.N |-> fhe.T * Squared(s)[i]]

Ternary(s) == \A i \in 1..Len(s) : s[i] \in {-1, 0, 1}

\* The pair <<b, a>> satisfies b + a*s = poly_msg - e mod q for an e within
\* the sampler bound.
EncryptsUnder(k, s, poly_msg) ==
    NoiseWithin(fhe, ErrorOf(k, s, poly_msg), SamplerBound(fhe))

\* The installed relinearization key encrypts s^2 and T*s^2 under s.
RelinKeyOf(s) ==
    /\ EncryptsUnder(relin_key[1], s, Squared(s))
    /\ EncryptsUnder(relin_key[2], s, SquaredT(s))

\* C21 as stated: right after key_generation the secret key is ternary and
\* b + a*s = -e mod q with e within the sampler bound; right after
\* generate_relin_key b0 + a0*s = s^2 - e0 and b1 + a1*s = T*s^2 - e1 mod q
\* with e0, e1 within the sampler bound.
C21_keys_encrypt_under_secret ==
    /\ (call = "key_generation" /\ err = "none") =>
           /\ Ternary(secret_key)
           /\ EncryptsUnder(public_key, secret_key, Zero(fhe.N))
    /\ (call = "generate_relin_key" /\ err = "none") => RelinKeyOf(secret_key)

\* The sum of two residues of q always fits the word.
SumsFit(e) == 2 * (e.ring_q - 1) < 2^(IntBits - 1)

\* C21 for the engines whose modulus leaves room for a sum of two
\* residues in the word.
C21_keys_encrypt_under_secret_sums_fit ==
    SumsFit(fhe) => C21_keys_encrypt_under_secret

\* C22 as stated: whenever a relinearization key is installed it encrypts
\* s^2 and T*s^2 for the secret key s installed now, and the installed
\* public key belongs to that s; a later key_generation leaves no
\* relinearization key of the previous secret key behind.
C22_relin_key_matches_installed_secret ==
    relin_key # None =>
        /\ RelinKeyOf(secret_key)
        /\ EncryptsUnder(public_key, secret_key, Zero(fhe.N))

\* C22 for the engines whose modulus leaves room for a sum of two residues
\* in the word.
C22_relin_key_matches_installed_secret_sums_fit ==
    SumsFit(fhe) => C22_relin_key_matches_installed_secret

-----------------------------------------------------------------------------
(* Claims about word arithmetic (SpecWord).                                *)

\* C23 as stated: for all a, b in [0, q) and every modulus the engine can
\* select, add returns the true (a + b) mod q and sub the true
\* (a - b) mod q; the intermediate a + b never wraps around the word.
C23_add_sub_exact_in_word ==
    /\ call = "PolynomialRing.add" =>
           \A i \in 1..fhe.ring_N :
               /\ Wrap(msg1[i] + msg2[i]) = msg1[i] + msg2[i]
               /\ val[i] = (msg1[i] + msg2[i]) % fhe.ring_q
    /\ call = "PolynomialRing.sub" =>
           \A i \in 1..fhe.ring_N : val[i] = (msg1[i] - msg2[i]) % fhe.ring_q

\* C23 for the engines whose modulus leaves room for a sum of two residues
\* in the word.
C23_add_sub_exact_in_word_sums_fit ==
    SumsFit(fhe) => C23_add_sub_exact_in_word

\* The part of C23 about sub, for every engine.
C23_sub_exact_in_word ==
    call = "PolynomialRing.sub" =>
        \A i \in 1..fhe.ring_N : val[i] = (msg1[i] - msg2[i]) % fhe.ring_q

====
